---- MODULE Spec2Model ----
(***************************************************************************)
(* Office-visits bot: the working-day calendar (calendar_data.py), the     *)
(* SQLite attendance store (database.py) and the report generator          *)
(* (report_generator.py), as state machines over one set of variables.     *)
(*                                                                         *)
(* A date is a record [year, month, day]; a datetime carries an hour as    *)
(* well.  A string is a sequence of character codes, so that strftime,     *)
(* strptime and SQLite's TEXT comparison are modelled by what they do.     *)
(***************************************************************************)
EXTENDS Integers, Sequences, FiniteSets, TLC

VARIABLES
    users,      \* rows of table users
    visits,     \* rows of table office_visits
    seq,        \* sqlite_sequence value of office_visits (AUTOINCREMENT)
    now,        \* the wall clock: what datetime.now() returns
    ret,        \* the last call: operation, arguments, raised?, return value
    lastMark,   \* history: per (user, date) the last committed mark, or NULL
    lock,       \* connection holding SQLite's database write lock, or NoProc
    conns       \* per concurrent caller: where it is in mark_visit, its
                \* arguments, its staged transaction, its error and the
                \* users whose writer it was blocked by

vars == <<users, visits, seq, now, ret, lastMark, lock, conns>>

NULL == "NULL"
\* Python's None, as a value of its own kind.
None == [none |-> TRUE]

(***************************************************************************)
(* datetime, date, timedelta, strftime, strptime                           *)
(***************************************************************************)
Date(y, m, d) == [year |-> y, month |-> m, day |-> d]

DateTime(y, m, d, h) == [year |-> y, month |-> m, day |-> d, hour |-> h]

\* datetime.date(): drops the time of day.
DateOf(dt) == [year |-> dt.year, month |-> dt.month, day |-> dt.day]

\* isinstance(date, datetime)
IsDateTime(x) == "hour" \in DOMAIN x

IsLeap(y) == (y % 4 = 0) /\ ((y % 100 # 0) \/ (y % 400 = 0))

DaysInMonth(y, m) ==
    IF m = 2 THEN (IF IsLeap(y) THEN 29 ELSE 28)
    ELSE IF m \in {4, 6, 9, 11} THEN 30 ELSE 31

RECURSIVE DaysBeforeMonth(_, _)
DaysBeforeMonth(y, m) ==
    IF m = 1 THEN 0 ELSE DaysBeforeMonth(y, m - 1) + DaysInMonth(y, m - 1)

\* date.toordinal(): days since 0001-01-01 (which has ordinal 1).
ToOrdinal(d) ==
    LET y1 == d.year - 1
    IN  y1 * 365 + (y1 \div 4) - (y1 \div 100) + (y1 \div 400)
        + DaysBeforeMonth(d.year, d.month) + d.day

\* date.weekday(): Monday = 0 ... Sunday = 6.
Weekday(d) == (ToOrdinal(d) + 6) % 7

\* x + timedelta(days=1) and x - timedelta(days=1); the time of day is kept.
NextDay(x) ==
    IF x.day < DaysInMonth(x.year, x.month) THEN [x EXCEPT !.day = x.day + 1]
    ELSE IF x.month < 12 THEN [x EXCEPT !.month = x.month + 1, !.day = 1]
    ELSE [x EXCEPT !.year = x.year + 1, !.month = 1, !.day = 1]

PrevDay(x) ==
    IF x.day > 1 THEN [x EXCEPT !.day = x.day - 1]
    ELSE IF x.month > 1
         THEN [x EXCEPT !.month = x.month - 1,
                        !.day = DaysInMonth(x.year, x.month - 1)]
    ELSE [x EXCEPT !.year = x.year - 1, !.month = 12, !.day = 31]

\* x + timedelta(days=n), n of either sign.
RECURSIVE AddDays(_, _)
AddDays(x, n) ==
    IF n = 0 THEN x
    ELSE IF n > 0 THEN AddDays(NextDay(x), n - 1)
    ELSE AddDays(PrevDay(x), n + 1)

\* Comparison of two dates (date.__lt__, date.__le__).
DateLT(a, b) == ToOrdinal(a) < ToOrdinal(b)

DateLE(a, b) == ToOrdinal(a) <= ToOrdinal(b)

\* Character codes: '0'..'9' are 48..57, '-' is 45.
Digit(n) == 48 + n

Dash == 45

\* strftime("%Y-%m-%d"): ten characters, zero padded; the time of day is lost.
Strftime(x) ==
    << Digit(x.year \div 1000), Digit((x.year \div 100) % 10),
       Digit((x.year \div 10) % 10), Digit(x.year % 10), Dash,
       Digit(x.month \div 10), Digit(x.month % 10), Dash,
       Digit(x.day \div 10), Digit(x.day % 10) >>

\* strftime("%d.%m"), kept as the pair it prints.
StrftimeDayMonth(x) == <<x.day, x.month>>

\* datetime.strptime(s, "%Y-%m-%d").date()
Strptime(s) ==
    Date((s[1] - 48) * 1000 + (s[2] - 48) * 100 + (s[3] - 48) * 10 + (s[4] - 48),
         (s[6] - 48) * 10 + (s[7] - 48),
         (s[9] - 48) * 10 + (s[10] - 48))

\* Byte-wise comparison of two TEXT values (SQLite's BINARY collation).
RECURSIVE TextLE(_, _)
TextLE(a, b) ==
    IF a = <<>> THEN TRUE
    ELSE IF b = <<>> THEN FALSE
    ELSE IF Head(a) # Head(b) THEN Head(a) < Head(b)
    ELSE TextLE(Tail(a), Tail(b))

\* A date literal of the source, "YYYY-MM-DD", as its character codes.
Lit(y1, y2, y3, y4, m1, m2, d1, d2) ==
    << Digit(y1), Digit(y2), Digit(y3), Digit(y4), Dash,
       Digit(m1), Digit(m2), Dash, Digit(d1), Digit(d2) >>

(***************************************************************************)
(* calendar_data.py                                                        *)
(***************************************************************************)
HOLIDAYS_2026 ==
    << Lit(2,0,2,6, 0,1, 0,1), Lit(2,0,2,6, 0,1, 0,2), Lit(2,0,2,6, 0,1, 0,3),
       Lit(2,0,2,6, 0,1, 0,4), Lit(2,0,2,6, 0,1, 0,5), Lit(2,0,2,6, 0,1, 0,6),
       Lit(2,0,2,6, 0,1, 0,7), Lit(2,0,2,6, 0,1, 0,8),
       Lit(2,0,2,6, 0,1, 0,9),
       Lit(2,0,2,6, 0,2, 2,3),
       Lit(2,0,2,6, 0,3, 0,8),
       Lit(2,0,2,6, 0,5, 0,1),
       Lit(2,0,2,6, 0,5, 0,9),
       Lit(2,0,2,6, 0,6, 1,2),
       Lit(2,0,2,6, 1,1, 0,4) >>

SHORTENED_DAYS_2026 ==
    << Lit(2,0,2,6, 0,2, 2,0), Lit(2,0,2,6, 0,3, 0,7), Lit(2,0,2,6, 0,4, 3,0),
       Lit(2,0,2,6, 0,5, 0,8), Lit(2,0,2,6, 0,6, 1,1), Lit(2,0,2,6, 1,1, 0,3),
       Lit(2,0,2,6, 1,2, 3,1) >>

TRANSFERRED_HOLIDAYS_2026 == << Lit(2,0,2,6, 0,5, 1,1) >>

get_holidays ==
    LET all == HOLIDAYS_2026 \o TRANSFERRED_HOLIDAYS_2026
    IN  { Strptime(all[i]) : i \in 1..Len(all) }

\* The mutant of is_working_day that also rejects the shortened days.
is_working_day_shortened_off(date) ==
    LET date_obj == IF IsDateTime(date) THEN DateOf(date) ELSE date
        short == { Strptime(SHORTENED_DAYS_2026[i]) :
                       i \in 1..Len(SHORTENED_DAYS_2026) }
    IN  IF date_obj \in get_holidays \cup short THEN FALSE
        ELSE IF Weekday(date_obj) \in {5, 6} THEN FALSE
        ELSE TRUE

is_working_day(date) ==
    LET date_obj == IF IsDateTime(date) THEN DateOf(date) ELSE date
        holidays == get_holidays
    IN  IF date_obj \in holidays THEN FALSE
        ELSE IF Weekday(date_obj) \in {5, 6} THEN FALSE
        ELSE TRUE

\* The loop of get_work_week_dates: i runs over range(7).
RECURSIVE WorkWeekLoop(_, _, _)
WorkWeekLoop(monday, i, work_days) ==
    IF i >= 7 THEN work_days
    ELSE LET current_day == AddDays(monday, i)
         IN  WorkWeekLoop(monday, i + 1,
                 IF is_working_day(current_day)
                 THEN Append(work_days, current_day) ELSE work_days)

get_work_week_dates(date) ==
    LET monday == AddDays(date, 0 - Weekday(date))
    IN  WorkWeekLoop(monday, 0, <<>>)

\* Monday of ISO week 1 of a year, as an ordinal (datetime._isoweek1monday).
IsoWeek1Monday(year) ==
    LET firstday == ToOrdinal(Date(year, 1, 1))
        firstweekday == (firstday + 6) % 7
        week1monday == firstday - firstweekday
    IN  IF firstweekday > 3 THEN week1monday + 7 ELSE week1monday

\* Floor division, as Python's divmod gives for a negative dividend.
FloorDiv7(n) == IF n >= 0 THEN n \div 7 ELSE 0 - ((6 - n) \div 7)

\* date.isocalendar()[1]
get_week_number(date) ==
    LET today == ToOrdinal(date)
        week == FloorDiv7(today - IsoWeek1Monday(date.year))
    IN  IF week < 0
        THEN FloorDiv7(today - IsoWeek1Monday(date.year - 1)) + 1
        ELSE IF week >= 52 /\ today >= IsoWeek1Monday(date.year + 1)
        THEN 1
        ELSE week + 1

\* The while loop of get_month_working_days.
RECURSIVE MonthLoop(_, _, _)
MonthLoop(current, last_day, work_days) ==
    IF ~DateLE(current, last_day) THEN work_days
    ELSE MonthLoop(NextDay(current), last_day,
             IF is_working_day(current)
             THEN Append(work_days, current) ELSE work_days)

\* The mutant of get_month_working_days whose loop runs up to the 1st of
\* the next month.
get_month_working_days_to_next_first(year, month) ==
    LET first_day == DateTime(year, month, 1, 0)
        last_day == IF month = 12 THEN DateTime(year + 1, 1, 1, 0)
                    ELSE DateTime(year, month + 1, 1, 0)
    IN  MonthLoop(first_day, last_day, <<>>)

get_month_working_days(year, month) ==
    LET first_day == DateTime(year, month, 1, 0)
        last_day == IF month = 12
                    THEN AddDays(DateTime(year + 1, 1, 1, 0), -1)
                    ELSE AddDays(DateTime(year, month + 1, 1, 0), -1)
    IN  MonthLoop(first_day, last_day, <<>>)

(***************************************************************************)
(* database.py: the tables, the statements and the connection scope        *)
(***************************************************************************)
\* The three things one SQLite transaction covers.
Db(u, v, s) == [users |-> u, visits |-> v, seq |-> s]

\* sqlite3's adapter for a Python bool bound to a BOOLEAN column, and the
\* truth value Python gives the integer read back.
Adapt(b) == IF b THEN 1 ELSE 0

Truthy(v) == v # 0

UserRow(user_id, profile, ts) ==
    [user_id |-> user_id, username |-> profile[1], first_name |-> profile[2],
     last_name |-> profile[3], created_at |-> ts]

VisitRow(id, user_id, date_str, was_in_office, note, ts) ==
    [id |-> id, user_id |-> user_id, visit_date |-> date_str,
     was_in_office |-> was_in_office, note |-> note, created_at |-> ts]

\* INSERT INTO users ... ON CONFLICT(user_id) DO UPDATE SET username,
\* first_name, last_name (created_at keeps its value).
ExecUpsertUser(db, user_id, profile, ts) ==
    LET hit == { r \in db.users : r.user_id = user_id }
    IN  IF hit = {}
        THEN [db EXCEPT !.users = @ \cup {UserRow(user_id, profile, ts)}]
        ELSE [db EXCEPT !.users =
                 (@ \ hit) \cup { UserRow(user_id, profile, r.created_at) :
                                      r \in hit }]

\* The mutant of ExecUpsertVisit with neither the UNIQUE constraint nor the
\* ON CONFLICT clause: every statement inserts a row.
ExecInsertVisitAlways(db, user_id, date_str, was_in_office, note, ts) ==
    [db EXCEPT !.visits = @ \cup
                   {VisitRow(db.seq + 1, user_id, date_str, was_in_office,
                             note, ts)},
               !.seq = db.seq + 1]

\* The mutant of ExecUpsertVisit whose conflict clause is DO NOTHING.
ExecUpsertVisitDoNothing(db, user_id, date_str, was_in_office, note, ts) ==
    LET hit == { r \in db.visits :
                     r.user_id = user_id /\ r.visit_date = date_str }
    IN  IF hit = {}
        THEN [db EXCEPT !.visits = @ \cup
                            {VisitRow(db.seq + 1, user_id, date_str,
                                      was_in_office, note, ts)},
                        !.seq = db.seq + 1]
        ELSE [db EXCEPT !.seq = db.seq + 1]

\* INSERT INTO office_visits ... ON CONFLICT(user_id, visit_date) DO UPDATE
\* SET was_in_office, note, created_at.  AUTOINCREMENT draws a rowid for
\* every statement, also for one that ends in the update.  No PRAGMA
\* foreign_keys is issued, so user_id is not checked against users.
ExecUpsertVisit(db, user_id, date_str, was_in_office, note, ts) ==
    LET hit == { r \in db.visits :
                     r.user_id = user_id /\ r.visit_date = date_str }
    IN  IF hit = {}
        THEN [db EXCEPT !.visits = @ \cup
                            {VisitRow(db.seq + 1, user_id, date_str,
                                      was_in_office, note, ts)},
                        !.seq = db.seq + 1]
        ELSE [db EXCEPT !.visits =
                            (@ \ hit) \cup
                            { VisitRow(r.id, user_id, date_str, was_in_office,
                                       note, ts) : r \in hit },
                        !.seq = db.seq + 1]

\* The mutant of ExecDeleteVisit whose WHERE clause forgets the date.
ExecDeleteVisitAnyDate(db, user_id, date_str) ==
    [db EXCEPT !.visits = { r \in @ : r.user_id # user_id }]

\* DELETE FROM office_visits WHERE user_id = ? AND visit_date = ?
ExecDeleteVisit(db, user_id, date_str) ==
    [db EXCEPT !.visits =
         { r \in @ : ~(r.user_id = user_id /\ r.visit_date = date_str) }]

\* SELECT * ... WHERE user_id = ? AND visit_date = ?
SelectVisit(db, user_id, date_str) ==
    { r \in db.visits : r.user_id = user_id /\ r.visit_date = date_str }

\* The mutant of SelectPeriod whose WHERE clause forgets the user.
SelectPeriodAnyUser(db, user_id, lo, hi) ==
    { r \in db.visits : /\ TextLE(lo, r.visit_date)
                        /\ TextLE(r.visit_date, hi) }

\* SELECT * ... WHERE user_id = ? AND visit_date BETWEEN ? AND ?
SelectPeriod(db, user_id, lo, hi) ==
    { r \in db.visits : /\ r.user_id = user_id
                        /\ TextLE(lo, r.visit_date)
                        /\ TextLE(r.visit_date, hi) }

\* The mutant of ExecSelect that consumes the rows it reads.
ExecSelectConsumes(db, user_id) ==
    [db EXCEPT !.visits = { r \in @ : r.user_id # user_id }]

\* What a SELECT on office_visits for user_id stages in its transaction:
\* nothing.
ExecSelect(db, user_id) == db

\* ORDER BY visit_date (rows of equal date in rowid order).
RowBefore(a, b) ==
    \/ (a.visit_date # b.visit_date /\ TextLE(a.visit_date, b.visit_date))
    \/ (a.visit_date = b.visit_date /\ a.id <= b.id)

\* The mutant of OrderByVisitDate with no ORDER BY clause: rows come in
\* rowid order.
RECURSIVE OrderByRowid(_)
OrderByRowid(rows) ==
    IF rows = {} THEN <<>>
    ELSE LET first == CHOOSE r \in rows : \A o \in rows : r.id <= o.id
         IN  <<first>> \o OrderByRowid(rows \ {first})

RECURSIVE OrderByVisitDate(_)
OrderByVisitDate(rows) ==
    IF rows = {} THEN <<>>
    ELSE LET first == CHOOSE r \in rows : \A o \in rows : RowBefore(r, o)
         IN  <<first>> \o OrderByVisitDate(rows \ {first})

\* cursor.fetchone(): the first row of the result, or None.
FetchOne(rows) ==
    IF rows = {} THEN None
    ELSE CHOOSE r \in rows : \A o \in rows : r.id <= o.id

\* Where a call may fail: nowhere, in sqlite3.connect, in the body of the
\* with block, or in conn.commit().
Faults == {"none", "connect", "body", "commit"}

\* The mutant of Rollback that leaves the statement's changes in place.
RollbackKeepsChanges(db, staged) == staged

\* conn.rollback(): the database as it was before the transaction.
Rollback(db, staged) == db

\* get_connection around a body that turns db into staged: commit when the
\* body and the commit succeed, else rollback and re-raise.
get_connection(db, staged, fault) ==
    IF fault = "none" THEN [db |-> staged, raised |-> FALSE]
    ELSE IF fault = "connect" THEN [db |-> db, raised |-> TRUE]
    ELSE [db |-> Rollback(db, staged), raised |-> TRUE]

add_or_update_user(db, user_id, profile, ts, fault) ==
    get_connection(db, ExecUpsertUser(db, user_id, profile, ts), fault)

mark_visit(db, user_id, date, was_in_office, note, ts, fault) ==
    LET date_str == Strftime(date)
    IN  get_connection(db,
            ExecUpsertVisit(db, user_id, date_str, Adapt(was_in_office),
                            note, ts),
            fault)

delete_visit(db, user_id, date, fault) ==
    LET date_str == Strftime(date)
    IN  get_connection(db, ExecDeleteVisit(db, user_id, date_str), fault)

get_visit(db, user_id, date) ==
    LET date_str == Strftime(date)
    IN  FetchOne(SelectVisit(db, user_id, date_str))

get_visits_by_period(db, user_id, start_date, end_date) ==
    OrderByVisitDate(SelectPeriod(db, user_id, Strftime(start_date),
                                  Strftime(end_date)))

get_month_visits(db, user_id, year, month) ==
    LET start_date == DateTime(year, month, 1, 0)
        end_date == IF month = 12 THEN DateTime(year + 1, 1, 1, 0)
                    ELSE DateTime(year, month + 1, 1, 0)
    IN  get_visits_by_period(db, user_id, start_date, end_date)

get_week_visits(db, user_id, date) ==
    LET monday == AddDays(date, 0 - Weekday(date))
        sunday == AddDays(monday, 6)
    IN  get_visits_by_period(db, user_id, monday, sunday)

(***************************************************************************)
(* The inputs the store is driven with                                     *)
(***************************************************************************)
\* Cap on sqlite_sequence: mark_visit is not called again once reached.
MaxSeq == 2

UserIds == {101, 102}

\* The users that register in the store-only runs; the other never does.
Registering == {101}

\* (username, first_name, last_name) as Telegram reports them.
Profiles == { <<"ann", "Ann", NULL>>, <<NULL, "Ann", "Lee">> }

\* (was_in_office, note) as callers pass them.
Marks == { <<TRUE, NULL>>, <<FALSE, NULL>>, <<FALSE, "wfh">> }

\* Where a read is made to fail.
ReadFaults == {"none", "connect"}

\* A Monday inside January 2026 (at two times of day) and the 1st of the
\* month after it.
StoreDateTimes ==
    { DateTime(2026, 1, 12, 9), DateTime(2026, 1, 12, 18),
      DateTime(2026, 2, 1, 0) }

StoreMonths == { <<2026, 1>>, <<2026, 2>>, <<2026, 12>> }

StartOfClock == DateTime(2026, 1, 12, 9)

NoCall == [op |-> "none", args |-> <<>>, raised |-> FALSE, value |-> None]

Call(op, args, raised, value) ==
    [op |-> op, args |-> args, raised |-> raised, value |-> value]

NoProc == 0

NumProcs == 2

Procs == 1..NumProcs

Idle ==
    [pc |-> "idle", args |-> <<>>, staged |-> None, error |-> "none",
     blocked_by |-> {}]

\* The key of the history: the user and the calendar day of the mark.
Key(user_id, date) == <<user_id, DateOf(date)>>

Marked(was_in_office, note) == [was_in_office |-> was_in_office, note |-> note]

(***************************************************************************)
(* The store, one call at a time                                           *)
(***************************************************************************)
\* The state after Database() on a new file, at a given time of the clock.
InitAt(clock, call) ==
    /\ users = {}
    /\ visits = {}
    /\ seq = 0
    /\ now = clock
    /\ ret = call
    /\ lastMark = <<>>
    /\ lock = NoProc
    /\ conns = [p \in Procs |-> Idle]

Init == InitAt(StartOfClock, NoCall)

AddOrUpdateUser(user_id, profile, fault) ==
    LET r == add_or_update_user(Db(users, visits, seq), user_id, profile,
                                now, fault)
    IN  /\ users' = r.db.users
        /\ visits' = r.db.visits
        /\ seq' = r.db.seq
        /\ ret' = Call("add_or_update_user", <<user_id, profile>>, r.raised,
                       None)
        /\ UNCHANGED <<now, lastMark, lock, conns>>

MarkVisit(user_id, date, was_in_office, note, fault) ==
    LET r == mark_visit(Db(users, visits, seq), user_id, date, was_in_office,
                        note, now, fault)
    IN  /\ seq < MaxSeq
        /\ users' = r.db.users
        /\ visits' = r.db.visits
        /\ seq' = r.db.seq
        /\ ret' = Call("mark_visit", <<user_id, date, was_in_office, note>>,
                       r.raised, None)
        /\ lastMark' = IF r.raised THEN lastMark
                       ELSE (Key(user_id, date) :> Marked(was_in_office, note))
                            @@ lastMark
        /\ UNCHANGED <<now, lock, conns>>

DeleteVisit(user_id, date, fault) ==
    LET r == delete_visit(Db(users, visits, seq), user_id, date, fault)
    IN  /\ users' = r.db.users
        /\ visits' = r.db.visits
        /\ seq' = r.db.seq
        /\ ret' = Call("delete_visit", <<user_id, date>>, r.raised, None)
        /\ lastMark' = IF r.raised THEN lastMark
                       ELSE [k \in DOMAIN lastMark \ {Key(user_id, date)} |->
                                 lastMark[k]]
        /\ UNCHANGED <<now, lock, conns>>

\* A read: the body of the with block stages nothing, the scope commits.
GetVisit(user_id, date, fault) ==
    LET db == Db(users, visits, seq)
        r == get_connection(db, db, fault)
    IN  /\ users' = r.db.users
        /\ visits' = r.db.visits
        /\ seq' = r.db.seq
        /\ ret' = Call("get_visit", <<user_id, date>>, r.raised,
                       IF r.raised THEN None ELSE get_visit(db, user_id, date))
        /\ UNCHANGED <<now, lastMark, lock, conns>>

GetMonthVisits(user_id, year, month, fault) ==
    LET db == Db(users, visits, seq)
        r == get_connection(db, db, fault)
    IN  /\ users' = r.db.users
        /\ visits' = r.db.visits
        /\ seq' = r.db.seq
        /\ ret' = Call("get_month_visits", <<user_id, year, month>>, r.raised,
                       IF r.raised THEN None
                       ELSE get_month_visits(db, user_id, year, month))
        /\ UNCHANGED <<now, lastMark, lock, conns>>

Next ==
    \/ \E u \in Registering, p \in Profiles, f \in Faults :
           AddOrUpdateUser(u, p, f)
    \/ \E u \in UserIds, d \in StoreDateTimes, m \in Marks, f \in Faults :
           MarkVisit(u, d, m[1], m[2], f)
    \/ \E u \in UserIds, d \in StoreDateTimes, f \in Faults :
           DeleteVisit(u, d, f)
    \/ \E u \in UserIds, d \in StoreDateTimes, f \in ReadFaults :
           GetVisit(u, d, f)
    \/ \E u \in UserIds, ym \in StoreMonths, f \in ReadFaults :
           GetMonthVisits(u, ym[1], ym[2], f)

Spec == Init /\ [][Next]_vars

(***************************************************************************)
(* Claims about the store                                                  *)
(***************************************************************************)
RowsOf(user_id, date) ==
    { r \in visits : r.user_id = user_id /\ r.visit_date = Strftime(date) }

\* C1: after any sequence of mark_visit and delete_visit calls the table
\* holds at most one row per (user_id, visit_date), and a mark_visit that
\* returned leaves exactly one row for its key, carrying its flag.
C1_OneRecordPerKey ==
    /\ \A a, b \in visits :
           (a.user_id = b.user_id /\ a.visit_date = b.visit_date) => a = b
    /\ (ret.op = "mark_visit" /\ ~ret.raised) =>
           /\ Cardinality(RowsOf(ret.args[1], ret.args[2])) = 1
           /\ \A r \in RowsOf(ret.args[1], ret.args[2]) :
                  Truthy(r.was_in_office) = ret.args[3]

\* mark_visit(u, d, True) has just returned for a key that was already
\* marked: the statement took its conflict branch (the row kept rowid 1
\* while the sequence moved on).
C1_Witness ==
    /\ ret.op = "mark_visit" /\ ~ret.raised /\ ret.args[3] = TRUE
    /\ seq = 2
    /\ \E r \in visits : r.id = 1 /\ r.was_in_office = 1 /\ visits = {r}

\* C2: get_visit(u, d) returns the flag and the note of the last committed
\* mark_visit(u, d, ...) that no delete_visit(u, d) followed, and None when
\* there is none, whatever was written to other keys in between.
C2_LastWriteWins ==
    (ret.op = "get_visit" /\ ~ret.raised) =>
        LET k == Key(ret.args[1], ret.args[2])
        IN  IF k \in DOMAIN lastMark
            THEN /\ ret.value # None
                 /\ Truthy(ret.value.was_in_office) = lastMark[k].was_in_office
                 /\ ret.value.note = lastMark[k].note
            ELSE ret.value = None

\* get_visit returns a row that was first inserted and then overwritten
\* with was_in_office = False and a note.
C2_Witness ==
    /\ ret.op = "get_visit" /\ ~ret.raised /\ ret.value # None
    /\ ret.value.id = 1 /\ seq = 2
    /\ ret.value.was_in_office = 0 /\ ret.value.note = "wfh"

\* The 1st of the month after (year, month).
FirstOfNextMonth(year, month) ==
    IF month = 12 THEN Date(year + 1, 1, 1) ELSE Date(year, month + 1, 1)

\* C3: get_month_visits(user_id, year, month) returns exactly the user's
\* rows dated in [1st of the month, 1st of the next month).
C3_MonthHalfOpen ==
    (ret.op = "get_month_visits" /\ ~ret.raised) =>
        { ret.value[i] : i \in 1..Len(ret.value) } =
        { r \in visits :
              /\ r.user_id = ret.args[1]
              /\ DateLE(Date(ret.args[2], ret.args[3], 1),
                        Strptime(r.visit_date))
              /\ DateLT(Strptime(r.visit_date),
                        FirstOfNextMonth(ret.args[2], ret.args[3])) }

WriteOps == {"mark_visit", "delete_visit", "add_or_update_user"}

\* What a write that returned has committed.
Committed(call, u, v) ==
    /\ call.op = "mark_visit" =>
           \E r \in v : /\ r.user_id = call.args[1]
                        /\ r.visit_date = Strftime(call.args[2])
                        /\ r.was_in_office = Adapt(call.args[3])
                        /\ r.note = call.args[4]
    /\ call.op = "delete_visit" =>
           ~\E r \in v : /\ r.user_id = call.args[1]
                         /\ r.visit_date = Strftime(call.args[2])
    /\ call.op = "add_or_update_user" =>
           \E r \in u : /\ r.user_id = call.args[1]
                        /\ <<r.username, r.first_name, r.last_name>> =
                               call.args[2]

\* C4: a write that raises leaves users, office_visits and the rowid
\* sequence exactly as they were before the call; a write that returns has
\* committed its effect.
C4_AllOrNothing ==
    [][ ret'.op \in WriteOps =>
            IF ret'.raised
            THEN users' = users /\ visits' = visits /\ seq' = seq
            ELSE Committed(ret', users', visits') ]_vars

\* A mark_visit for a key with no row has just raised, beside another row.
C4_Witness ==
    /\ ret.op = "mark_visit" /\ ret.raised
    /\ RowsOf(ret.args[1], ret.args[2]) = {}
    /\ visits # {}

(***************************************************************************)
(* mark_visit called from several connections at once.  Each caller goes   *)
(* through get_connection step by step: sqlite3.connect, the INSERT (which *)
(* takes the database's write lock), then commit, or rollback on an error. *)
(***************************************************************************)
ConcDateTimes == { DateTime(2026, 1, 12, 9) }

InFlight == { q \in Procs : conns[q].pc \in {"open", "executed"} }

\* sqlite3.connect(self.db_path) at the start of a mark_visit call.
Connect(p, user_id, date, was_in_office, note) ==
    /\ conns[p].pc \in {"idle", "returned", "raised"}
    /\ seq + Cardinality(InFlight) < MaxSeq
    /\ conns' = [conns EXCEPT ![p] =
                     [pc |-> "open",
                      args |-> <<user_id, date, was_in_office, note>>,
                      staged |-> None, error |-> "none",
                      blocked_by |-> {}]]
    /\ UNCHANGED <<users, visits, seq, now, ret, lastMark, lock>>

\* The mutant of LockFree: a statement that writes without the lock.
LockIgnored(p) == TRUE

\* SQLite lets one connection at a time hold the write lock of the file.
LockFree(p) == lock \in {NoProc, p}

\* cursor.execute(INSERT ...): takes the write lock and stages the upsert.
Execute(p) ==
    LET a == conns[p].args
    IN  /\ conns[p].pc = "open"
        /\ LockFree(p)
        /\ lock' = p
        /\ conns' = [conns EXCEPT ![p].pc = "executed",
                                  ![p].staged =
                                      ExecUpsertVisit(Db(users, visits, seq),
                                          a[1], Strftime(a[2]), Adapt(a[3]),
                                          a[4], now)]
        /\ UNCHANGED <<users, visits, seq, now, ret, lastMark>>

\* cursor.execute while another connection holds the lock for longer than
\* the connection's busy timeout (sqlite3.connect's default of 5 s):
\* "database is locked" is raised, rolled back and re-raised.
BusyTimeout(p) ==
    /\ conns[p].pc = "open"
    /\ ~LockFree(p)
    /\ conns' = [conns EXCEPT ![p].pc = "raised", ![p].error = "locked",
                              ![p].blocked_by = {conns[lock].args[1]}]
    /\ UNCHANGED <<users, visits, seq, now, ret, lastMark, lock>>

\* conn.commit() succeeds: the staged upsert becomes the database.
Commit(p) ==
    LET a == conns[p].args
        r == get_connection(Db(users, visits, seq), conns[p].staged, "none")
    IN  /\ conns[p].pc = "executed"
        /\ users' = r.db.users
        /\ visits' = r.db.visits
        /\ seq' = r.db.seq
        /\ lock' = NoProc
        /\ lastMark' = (Key(a[1], a[2]) :> Marked(a[3], a[4])) @@ lastMark
        /\ conns' = [conns EXCEPT ![p].pc = "returned", ![p].staged = None]
        /\ UNCHANGED <<now, ret>>

\* conn.commit() raises: rollback, re-raise, close.
CommitFails(p) ==
    LET r == get_connection(Db(users, visits, seq), conns[p].staged, "commit")
    IN  /\ conns[p].pc = "executed"
        /\ users' = r.db.users
        /\ visits' = r.db.visits
        /\ seq' = r.db.seq
        /\ lock' = NoProc
        /\ conns' = [conns EXCEPT ![p].pc = "raised", ![p].error = "io",
                                  ![p].staged = None]
        /\ UNCHANGED <<now, ret, lastMark>>

NextConc ==
    \/ \E p \in Procs, u \in UserIds, d \in ConcDateTimes, m \in Marks :
           Connect(p, u, d, m[1], m[2])
    \/ \E p \in Procs : Execute(p)
    \/ \E p \in Procs : BusyTimeout(p)
    \/ \E p \in Procs : Commit(p)
    \/ \E p \in Procs : CommitFails(p)

SpecConc == Init /\ [][NextConc]_vars

\* C5 (as the claim states it): a writer is never refused because of a
\* writer for a different user; both writes succeed.
C5_DifferentUsersNeverConflict ==
    \A p \in Procs :
        conns[p].error = "locked" =>
            conns[p].blocked_by = {conns[p].args[1]}

\* C5 (amended): under any interleaving no committed write is lost or
\* altered by another writer: every key that a mark_visit committed to has
\* exactly one row, carrying the flag and note of the write that committed
\* last, and there is no row for a key nobody committed to (a writer that
\* raised left nothing behind).
C5_NoLostWrite ==
    /\ \A k \in DOMAIN lastMark :
           LET rows == RowsOf(k[1], k[2])
           IN  /\ Cardinality(rows) = 1
               /\ \A r \in rows :
                      /\ Truthy(r.was_in_office) = lastMark[k].was_in_office
                      /\ r.note = lastMark[k].note
    /\ \A r \in visits : <<r.user_id, Strptime(r.visit_date)>> \in DOMAIN lastMark

\* Two connections wrote for different users, both calls have returned and
\* both rows are there.
C5_Witness ==
    \E p, q \in Procs :
        /\ conns[p].pc = "returned" /\ conns[q].pc = "returned"
        /\ conns[p].args[1] # conns[q].args[1]
        /\ RowsOf(conns[p].args[1], conns[p].args[2]) # {}
        /\ RowsOf(conns[q].args[1], conns[q].args[2]) # {}

(***************************************************************************)
(* report_generator.py                                                     *)
(***************************************************************************)
\* {v['visit_date']: v for v in visits}: a later row of the same date
\* replaces an earlier one.
VisitsDict(rows) ==
    [ ds \in { rows[i].visit_date : i \in 1..Len(rows) } |->
          LET last == CHOOSE i \in 1..Len(rows) :
                          /\ rows[i].visit_date = ds
                          /\ \A j \in 1..Len(rows) :
                                 rows[j].visit_date = ds => j <= i
          IN  rows[last] ]

\* sum(1 for v in visits if v['was_in_office'])
RECURSIVE CountOffice(_)
CountOffice(rows) ==
    IF rows = <<>> THEN 0
    ELSE (IF Truthy(Head(rows).was_in_office) THEN 1 ELSE 0)
         + CountOffice(Tail(rows))

\* sum(1 for v in visits if not v['was_in_office'])
RECURSIVE CountHome(_)
CountHome(rows) ==
    IF rows = <<>> THEN 0
    ELSE (IF Truthy(Head(rows).was_in_office) THEN 0 ELSE 1)
         + CountHome(Tail(rows))

\* sorted(weeks.keys())
RECURSIVE Sorted(_)
Sorted(keys) ==
    IF keys = {} THEN <<>>
    ELSE LET least == CHOOSE k \in keys : \A o \in keys : k <= o
         IN  <<least>> \o Sorted(keys \ {least})

\* f"{office_percent:.1f}": the percentage in tenths, rounded half to even.
OfficePercent(total_office_days, total_work_days) ==
    LET q == (total_office_days * 1000) \div total_work_days
        r == (total_office_days * 1000) % total_work_days
    IN  IF 2 * r > total_work_days THEN q + 1
        ELSE IF 2 * r = total_work_days THEN q + (q % 2)
        ELSE q

\* The glyph of one day of the text report.
TextDayStatus(day, visits_dict) ==
    LET date_str == Strftime(day)
    IN  IF date_str \in DOMAIN visits_dict
        THEN IF Truthy(visits_dict[date_str].was_in_office)
             THEN "IN_OFFICE" ELSE "REMOTE"
        ELSE "UNMARKED"

\* The mutant of RequirementMet that asks for two office days.
RequirementMetAtTwo(office_count) ==
    IF office_count >= 2 THEN "MET" ELSE "REQUIRED"

\* "✅" if office_count >= 1 else "⚠️"
RequirementMet(office_count) ==
    IF office_count >= 1 THEN "MET" ELSE "REQUIRED"

\* The days of one week block and its office count.
RECURSIVE WeekLoop(_, _, _, _)
WeekLoop(week_days, visits_dict, office_count, week_status) ==
    IF week_days = <<>>
    THEN [office_count |-> office_count, week_status |-> week_status]
    ELSE LET day == Head(week_days)
             status == TextDayStatus(day, visits_dict)
         IN  WeekLoop(Tail(week_days), visits_dict,
                      IF status = "IN_OFFICE" THEN office_count + 1
                      ELSE office_count,
                      Append(week_status,
                             [day |-> StrftimeDayMonth(day),
                              status |-> status]))

\* The grouping loop: weeks[week_num].append(day) for every working day.
RECURSIVE GroupByWeek(_, _)
GroupByWeek(work_days, weeks) ==
    IF work_days = <<>> THEN weeks
    ELSE LET day == Head(work_days)
             week_num == get_week_number(day)
         IN  GroupByWeek(Tail(work_days),
                 IF week_num \in DOMAIN weeks
                 THEN [weeks EXCEPT ![week_num] = Append(@, day)]
                 ELSE (week_num :> <<day>>) @@ weeks)

generate_text_report(db, user_id, year, month) ==
    LET work_days == get_month_working_days(year, month)
        rows == get_month_visits(db, user_id, year, month)
        visits_dict == VisitsDict(rows)
        weeks == GroupByWeek(work_days, <<>>)
        order == Sorted(DOMAIN weeks)
        total_work_days == Len(work_days)
        total_office_days == CountOffice(rows)
        total_home_days == CountHome(rows)
    IN  [ month |-> month, year |-> year,
          total_work_days |-> total_work_days,
          total_office_days |-> total_office_days,
          total_home_days |-> total_home_days,
          office_percent |->
              IF total_work_days > 0
              THEN <<OfficePercent(total_office_days, total_work_days)>>
              ELSE <<>>,
          weeks |->
              [ i \in 1..Len(order) |->
                    LET w == WeekLoop(weeks[order[i]], visits_dict, 0, <<>>)
                    IN  [ week_num |-> order[i],
                          requirement_met |-> RequirementMet(w.office_count),
                          office_count |-> w.office_count,
                          week_status |-> w.week_status ] ] ]

\* The mutant of WeekDayStatus whose test is day >= today.
WeekDayStatusFromToday(day, today, visits_dict) ==
    LET date_str == Strftime(day)
    IN  IF date_str \in DOMAIN visits_dict
        THEN IF Truthy(visits_dict[date_str].was_in_office)
             THEN "IN_OFFICE" ELSE "REMOTE"
        ELSE IF DateLE(DateOf(today), DateOf(day)) THEN "PLANNED"
        ELSE "UNMARKED"

\* The icon of one day of the current-week status.
WeekDayStatus(day, today, visits_dict) ==
    LET date_str == Strftime(day)
    IN  IF date_str \in DOMAIN visits_dict
        THEN IF Truthy(visits_dict[date_str].was_in_office)
             THEN "IN_OFFICE" ELSE "REMOTE"
        ELSE IF DateLT(DateOf(today), DateOf(day)) THEN "PLANNED"
        ELSE "UNMARKED"

get_current_week_status(db, user_id, today) ==
    LET week_days == get_work_week_dates(today)
        rows == get_week_visits(db, user_id, today)
        visits_dict == VisitsDict(rows)
        office_count == CountOffice(rows)
    IN  [ week |-> get_week_number(today),
          days |-> [ i \in 1..Len(week_days) |->
                         [ day_name |-> Weekday(week_days[i]),
                           day_date |-> StrftimeDayMonth(week_days[i]),
                           status |-> WeekDayStatus(week_days[i], today,
                                                    visits_dict) ] ],
          office_count |-> office_count,
          requirement_met |-> RequirementMet(office_count) ]

cell_width == 80

cell_height == 60

header_height == 80

margin == 20

\* The marker drawn in one cell of the calendar image.
ImageMarker(current_date, visits_dict) ==
    IF ~is_working_day(current_date) THEN "NON_WORKING"
    ELSE LET date_str == Strftime(current_date)
         IN  IF date_str \in DOMAIN visits_dict
             THEN IF Truthy(visits_dict[date_str].was_in_office)
                  THEN "IN_OFFICE" ELSE "REMOTE"
             ELSE "UNMARKED"

\* The nested loops over range(weeks_count) and range(7): continue before
\* the first weekday, break once the month is over.
RECURSIVE ImageLoop(_, _, _, _, _)
ImageLoop(c, week, day_of_week, current_date, cells) ==
    IF week >= c.weeks_count THEN cells
    ELSE IF day_of_week >= 7 THEN ImageLoop(c, week + 1, 0, current_date, cells)
    ELSE IF week = 0 /\ day_of_week < c.first_weekday
    THEN ImageLoop(c, week, day_of_week + 1, current_date, cells)
    ELSE IF current_date.month # c.month
    THEN ImageLoop(c, week + 1, 0, current_date, cells)
    ELSE ImageLoop(c, week, day_of_week + 1, NextDay(current_date),
             Append(cells,
                    [ x |-> margin + day_of_week * cell_width,
                      y |-> header_height + margin + week * cell_height,
                      day_num |-> current_date.day,
                      marker |-> ImageMarker(current_date, c.visits_dict) ]))

generate_image_report(db, user_id, year, month) ==
    LET rows == get_month_visits(db, user_id, year, month)
        visits_dict == VisitsDict(rows)
        days_in_month ==
            ToOrdinal(IF month < 12 THEN DateTime(year, month + 1, 1, 0)
                      ELSE DateTime(year + 1, 1, 1, 0))
            - ToOrdinal(DateTime(year, month, 1, 0))
        first_weekday == Weekday(DateTime(year, month, 1, 0))
        weeks_count == ((days_in_month + first_weekday) + 6) \div 7
    IN  [ img_width |-> 7 * cell_width + 2 * margin,
          img_height |-> weeks_count * cell_height + header_height
                         + 2 * margin,
          title |-> <<month, year>>,
          cells |-> ImageLoop([ weeks_count |-> weeks_count,
                                first_weekday |-> first_weekday,
                                month |-> month,
                                visits_dict |-> visits_dict ],
                              0, 0, DateTime(year, month, 1, 0), <<>>) ]

(***************************************************************************)
(* The calendar on its own: each action applies one function to an input   *)
(***************************************************************************)
\* Every day of 2026, as a date and as a datetime, with the last days of
\* 2025 and the first of 2027.
CalDays ==
    { Date(2026, m, d) : m \in 1..12, d \in 1..28 }
    \cup { Date(2026, m, d) : m \in (1..12) \ {2}, d \in 29..30 }
    \cup { Date(2026, m, 31) : m \in {1, 3, 5, 7, 8, 10, 12} }
    \cup { Date(2025, 12, d) : d \in 25..31 }
    \cup { Date(2027, 1, d) : d \in 1..7 }

CalInputs ==
    CalDays \cup { DateTime(x.year, x.month, x.day, 18) : x \in CalDays }

CalMonths ==
    { <<2026, m>> : m \in 1..12 }
    \cup { <<2025, 12>>, <<2027, 1>>, <<2027, 2>>, <<2028, 2>> }

\* The input of the call to come.
Input(args) == Call("input", args, FALSE, None)

InitCal ==
    \E args \in { <<d>> : d \in CalInputs } \cup CalMonths :
        InitAt(StartOfClock, Input(args))

IsWorkingDay(date) ==
    /\ ret = Input(<<date>>)
    /\ ret' = Call("is_working_day", <<date>>, FALSE, is_working_day(date))
    /\ UNCHANGED <<users, visits, seq, now, lastMark, lock, conns>>

GetWorkWeekDates(date) ==
    /\ ret = Input(<<date>>)
    /\ ret' = Call("get_work_week_dates", <<date>>, FALSE,
                   get_work_week_dates(date))
    /\ UNCHANGED <<users, visits, seq, now, lastMark, lock, conns>>

GetWeekNumber(date) ==
    /\ ret = Input(<<date>>)
    /\ ret' = Call("get_week_number", <<date>>, FALSE, get_week_number(date))
    /\ UNCHANGED <<users, visits, seq, now, lastMark, lock, conns>>

GetMonthWorkingDays(year, month) ==
    /\ ret = Input(<<year, month>>)
    /\ ret' = Call("get_month_working_days", <<year, month>>, FALSE,
                   get_month_working_days(year, month))
    /\ UNCHANGED <<users, visits, seq, now, lastMark, lock, conns>>

NextCal ==
    \/ \E d \in CalInputs : IsWorkingDay(d)
    \/ \E d \in CalInputs : GetWorkWeekDates(d)
    \/ \E d \in CalInputs : GetWeekNumber(d)
    \/ \E ym \in CalMonths : GetMonthWorkingDays(ym[1], ym[2])

SpecCal == InitCal /\ [][NextCal]_vars

(***************************************************************************)
(* The reports over the store                                              *)
(***************************************************************************)
\* A Monday and a Thursday of the week of 12 January 2026, and the 1st of
\* February, a Sunday.
ReportDateTimes ==
    { DateTime(2026, 1, 12, 9), DateTime(2026, 1, 15, 9),
      DateTime(2026, 2, 1, 9) }

\* The marks of the report runs: user 101 marks any of the three days either
\* way, user 102 marks the Monday as an office day.
ReportMarks ==
    { <<101, d, w, NULL>> : d \in ReportDateTimes, w \in BOOLEAN }
    \cup { <<102, DateTime(2026, 1, 12, 9), TRUE, NULL>> }

ReportProfile == <<"ann", "Ann", NULL>>

ReportMonths == { <<2026, 1>>, <<2026, 12>> }

\* The report runs start on the Wednesday of that week.
ReportClock == DateTime(2026, 1, 14, 9)

InitReport == InitAt(ReportClock, NoCall)

GenerateTextReport(user_id, year, month, fault) ==
    LET db == Db(users, visits, seq)
        r == get_connection(db, ExecSelect(db, user_id), fault)
    IN  /\ users' = r.db.users
        /\ visits' = r.db.visits
        /\ seq' = r.db.seq
        /\ ret' = Call("generate_text_report", <<user_id, year, month>>,
                       r.raised,
                       IF r.raised THEN None
                       ELSE generate_text_report(db, user_id, year, month))
        /\ UNCHANGED <<now, lastMark, lock, conns>>

GenerateImageReport(user_id, year, month, fault) ==
    LET db == Db(users, visits, seq)
        r == get_connection(db, ExecSelect(db, user_id), fault)
    IN  /\ users' = r.db.users
        /\ visits' = r.db.visits
        /\ seq' = r.db.seq
        /\ ret' = Call("generate_image_report", <<user_id, year, month>>,
                       r.raised,
                       IF r.raised THEN None
                       ELSE generate_image_report(db, user_id, year, month))
        /\ UNCHANGED <<now, lastMark, lock, conns>>

GetCurrentWeekStatus(user_id, fault) ==
    LET db == Db(users, visits, seq)
        today == now
        r == get_connection(db, ExecSelect(db, user_id), fault)
    IN  /\ users' = r.db.users
        /\ visits' = r.db.visits
        /\ seq' = r.db.seq
        /\ ret' = Call("get_current_week_status", <<user_id, today>>,
                       r.raised,
                       IF r.raised THEN None
                       ELSE get_current_week_status(db, user_id, today))
        /\ UNCHANGED <<now, lastMark, lock, conns>>

NextReport ==
    \/ \E u \in Registering : AddOrUpdateUser(u, ReportProfile, "none")
    \/ \E m \in ReportMarks : MarkVisit(m[1], m[2], m[3], m[4], "none")
    \/ \E u \in UserIds, ym \in ReportMonths, f \in ReadFaults :
           GenerateTextReport(u, ym[1], ym[2], f)
    \/ \E u \in UserIds, ym \in ReportMonths, f \in ReadFaults :
           GenerateImageReport(u, ym[1], ym[2], f)
    \/ \E u \in UserIds, f \in ReadFaults : GetCurrentWeekStatus(u, f)

SpecReport == InitReport /\ [][NextReport]_vars

(***************************************************************************)
(* The calendar of 2026 as the specification tables it, for the claims:    *)
(* days are counted from 1 January 2026, a Thursday.                       *)
(***************************************************************************)
HolidayTable ==
    { Date(2026, 1, d) : d \in 1..9 }
    \cup { Date(2026, 2, 23), Date(2026, 3, 8), Date(2026, 5, 1),
           Date(2026, 5, 9), Date(2026, 5, 11), Date(2026, 6, 12),
           Date(2026, 11, 4) }

ShortenedTable ==
    { Date(2026, 2, 20), Date(2026, 3, 7), Date(2026, 4, 30),
      Date(2026, 5, 8), Date(2026, 6, 11), Date(2026, 11, 3),
      Date(2026, 12, 31) }

MonthLength2026 == <<31, 28, 31, 30, 31, 30, 31, 31, 30, 31, 30, 31>>

DaysBefore2026 == <<0, 31, 59, 90, 120, 151, 181, 212, 243, 273, 304, 334>>

\* Days from 1 January 2026 to a day of December 2025, of 2026 or of
\* January 2027.
DaysSince(d) ==
    IF d.year = 2025 THEN d.day - 32
    ELSE IF d.year = 2027 THEN 364 + d.day
    ELSE DaysBefore2026[d.month] + d.day - 1

\* 0 for a Monday ... 6 for a Sunday.
DayOfWeek(d) == (DaysSince(d) + 3 + 7) % 7

IsWorkingDate(d) == d \notin HolidayTable /\ DayOfWeek(d) \notin {5, 6}

\* The stored flag of a user for a calendar day: the claims' three classes.
Classify(user_id, d) ==
    LET rows == { r \in visits :
                      r.user_id = user_id /\ Strptime(r.visit_date) = d }
    IN  IF rows = {} THEN "UNMARKED"
        ELSE IF \E r \in rows : r.was_in_office = 1 THEN "IN_OFFICE"
        ELSE "REMOTE"

(***************************************************************************)
(* Claims about the calendar and the reports                               *)
(***************************************************************************)
\* C6: is_working_day(date) is true if and only if the date is not in the
\* holiday-or-transferred-holiday set and is neither a Saturday nor a
\* Sunday; being a shortened day changes nothing.
C6_WorkingDayIff ==
    ret.op = "is_working_day" =>
        ret.value = IsWorkingDate(DateOf(ret.args[1]))

\* is_working_day has answered True for a shortened day given as a datetime.
C6_Witness ==
    /\ ret.op = "is_working_day"
    /\ IsDateTime(ret.args[1])
    /\ DateOf(ret.args[1]) \in ShortenedTable
    /\ ret.value = TRUE

IsTextReport == ret.op = "generate_text_report" /\ ~ret.raised

\* The number of days of a week block shown as in office.
OfficeDays(block) ==
    Cardinality({ j \in 1..Len(block.week_status) :
                      block.week_status[j].status = "IN_OFFICE" })

\* C7: every week block of the text report is flagged as compliant exactly
\* when its office count is at least 1, the office count being the number
\* of its days classified as in office.
C7_WeeklyCompliance ==
    IsTextReport =>
        \A i \in 1..Len(ret.value.weeks) :
            LET block == ret.value.weeks[i]
            IN  /\ block.office_count = OfficeDays(block)
                /\ block.requirement_met \in {"MET", "REQUIRED"}
                /\ block.requirement_met = "MET" <=> block.office_count >= 1

\* A text report with a compliant block of one office day and a block of
\* none that is not compliant.
C7_Witness ==
    /\ IsTextReport
    /\ \E i, k \in 1..Len(ret.value.weeks) :
           /\ ret.value.weeks[i].office_count = 1
           /\ ret.value.weeks[i].requirement_met = "MET"
           /\ ret.value.weeks[k].office_count = 0
           /\ ret.value.weeks[k].requirement_met = "REQUIRED"

\* Where a day of the month is shown in the text report: (block, line).
ShownAt(report, day) ==
    { <<i, j>> \in (1..Len(report.weeks)) \X (1..5) :
          /\ j <= Len(report.weeks[i].week_status)
          /\ report.weeks[i].week_status[j].day = <<day, report.month>> }

\* C8: in generate_text_report(user, year, month) every working day of the
\* month is shown exactly once, in one week block, as IN_OFFICE, REMOTE or
\* UNMARKED according to that user's own record for the day, and no other
\* day is shown.
C8_EveryWorkingDayOnce ==
    IsTextReport =>
        LET report == ret.value
            user_id == ret.args[1]
        IN  /\ \A i \in 1..Len(report.weeks) :
                   Len(report.weeks[i].week_status) \in 1..5
            /\ \A day \in 1..MonthLength2026[report.month] :
                   LET d == Date(report.year, report.month, day)
                       at == ShownAt(report, day)
                   IN  IF IsWorkingDate(d)
                       THEN /\ Cardinality(at) = 1
                            /\ \A x \in at :
                                   report.weeks[x[1]].week_status[x[2]].status
                                       = Classify(user_id, d)
                       ELSE at = {}
            /\ \A i \in 1..Len(report.weeks) :
                   \A j \in 1..Len(report.weeks[i].week_status) :
                       LET e == report.weeks[i].week_status[j].day
                       IN  /\ e[2] = report.month
                           /\ e[1] \in 1..MonthLength2026[report.month]

\* A text report for user 101 that shows 12.01 as remote while user 102 has
\* an office record for the same day.
C8_Witness ==
    /\ IsTextReport
    /\ ret.args = <<101, 2026, 1>>
    /\ Classify(102, Date(2026, 1, 12)) = "IN_OFFICE"
    /\ \E x \in ShownAt(ret.value, 12) :
           ret.value.weeks[x[1]].week_status[x[2]].status = "REMOTE"

IsWeekStatus == ret.op = "get_current_week_status" /\ ~ret.raised

\* The days of 2026 in the Monday-to-Sunday week of a day.
WeekOf(today) ==
    { d \in CalDays : /\ d.year = 2026
                      /\ DaysSince(d) - DayOfWeek(d)
                             = DaysSince(today) - DayOfWeek(today) }

\* The lines of the week status that show a given day.
StatusLines(status, d) ==
    { i \in 1..Len(status.days) : status.days[i].day_date = <<d.day, d.month>> }

\* C9: in get_current_week_status a working day of the current week with no
\* record is shown as PLANNED if it is strictly after today and as UNMARKED
\* if it is today or earlier.
C9_PlannedAfterToday ==
    IsWeekStatus =>
        LET status == ret.value
            user_id == ret.args[1]
            today == DateOf(ret.args[2])
        IN  \A d \in WeekOf(today) :
                (IsWorkingDate(d) /\ Classify(user_id, d) = "UNMARKED") =>
                    /\ StatusLines(status, d) # {}
                    /\ \A i \in StatusLines(status, d) :
                           status.days[i].status =
                               IF DaysSince(d) > DaysSince(today)
                               THEN "PLANNED" ELSE "UNMARKED"

\* The status asked on Wednesday 14 January with nothing recorded for the
\* Wednesday, the Thursday and the Friday: Thursday and Friday are PLANNED,
\* Wednesday is UNMARKED.
C9_Witness ==
    /\ IsWeekStatus
    /\ DateOf(ret.args[2]) = Date(2026, 1, 14)
    /\ \A day \in {14, 15, 16} :
           Classify(ret.args[1], Date(2026, 1, day)) = "UNMARKED"
    /\ \E i, j, k \in 1..Len(ret.value.days) :
           /\ ret.value.days[i].day_date = <<14, 1>>
           /\ ret.value.days[i].status = "UNMARKED"
           /\ ret.value.days[j].day_date = <<15, 1>>
           /\ ret.value.days[j].status = "PLANNED"
           /\ ret.value.days[k].day_date = <<16, 1>>
           /\ ret.value.days[k].status = "PLANNED"

ReportOps ==
    {"generate_text_report", "generate_image_report",
     "get_current_week_status"}

\* C10: generate_text_report, generate_image_report and
\* get_current_week_status leave the rows of users and of office_visits
\* (and the rowid sequence) as they were before the call.
C10_ReportsReadOnly ==
    [][ ret'.op \in ReportOps =>
            users' = users /\ visits' = visits /\ seq' = seq ]_vars

\* An image report has been produced from a store that holds a user and a
\* visit of the user the report is about.
C10_Witness ==
    /\ ret.op = "generate_image_report" /\ ~ret.raised
    /\ users # {}
    /\ \E r \in visits : r.user_id = ret.args[1]

(***************************************************************************)
(* Further claims about the store                                          *)
(***************************************************************************)
\* The rows of office_visits that belong to the calendar day of date and to
\* user_id, read from the stored text.
RowsAt(rows, user_id, date) ==
    { r \in rows : r.user_id = user_id /\ Strptime(r.visit_date) = DateOf(date) }

\* C11: a delete_visit(u, d) that returns has removed the row of (u, d) if
\* there was one and nothing else: every row of another user or another
\* date and every row of users is as before, and get_visit(u, d) on the
\* resulting store returns None.  Whether the row existed makes no
\* difference to the call returning.
C11_DeleteFrame ==
    [][ (ret'.op = "delete_visit" /\ ~ret'.raised) =>
            LET u == ret'.args[1]
                d == ret'.args[2]
            IN  /\ visits' = visits \ RowsAt(visits, u, d)
                /\ users' = users
                /\ get_visit(Db(users', visits', seq'), u, d) = None ]_vars

\* delete_visit has just returned and the store still holds the second of
\* two rows inserted under different keys, for the same user as the delete.
C11_Witness ==
    /\ ret.op = "delete_visit" /\ ~ret.raised
    /\ seq = 2
    /\ users # {}
    /\ \E r \in visits : /\ visits = {r}
                         /\ r.id = 2
                         /\ r.user_id = ret.args[1]
                         /\ RowsAt(visits, ret.args[1], ret.args[2]) = {}

(***************************************************************************)
(* get_visits_by_period called with arbitrary ranges                       *)
(***************************************************************************)
\* Days that differ in the year, in the month and in the day, at several
\* times of day.
RangeDateTimes ==
    { DateTime(2025, 12, 31, 9), DateTime(2026, 1, 12, 0),
      DateTime(2026, 2, 1, 18) }

RangeMarks == { <<TRUE, NULL>>, <<FALSE, "wfh">> }

GetVisitsByPeriod(user_id, start_date, end_date, fault) ==
    LET db == Db(users, visits, seq)
        r == get_connection(db, db, fault)
    IN  /\ users' = r.db.users
        /\ visits' = r.db.visits
        /\ seq' = r.db.seq
        /\ ret' = Call("get_visits_by_period",
                       <<user_id, start_date, end_date>>, r.raised,
                       IF r.raised THEN None
                       ELSE get_visits_by_period(db, user_id, start_date,
                                                 end_date))
        /\ UNCHANGED <<now, lastMark, lock, conns>>

NextRange ==
    \/ \E u \in Registering : AddOrUpdateUser(u, ReportProfile, "none")
    \/ \E u \in UserIds, d \in RangeDateTimes, m \in RangeMarks :
           MarkVisit(u, d, m[1], m[2], "none")
    \/ \E u \in UserIds, d \in RangeDateTimes : DeleteVisit(u, d, "none")
    \/ \E u \in UserIds, lo, hi \in RangeDateTimes, f \in ReadFaults :
           GetVisitsByPeriod(u, lo, hi, f)

SpecRange == Init /\ [][NextRange]_vars

\* C12: get_visits_by_period(user_id, start, end) returns exactly the rows
\* of user_id dated from the day of start to the day of end, both included,
\* each once, in ascending order of date.
C12_RangeInclusiveSorted ==
    (ret.op = "get_visits_by_period" /\ ~ret.raised) =>
        LET v == ret.value
            lo == DateOf(ret.args[2])
            hi == DateOf(ret.args[3])
        IN  /\ { v[i] : i \in 1..Len(v) } =
               { r \in visits : /\ r.user_id = ret.args[1]
                                /\ DateLE(lo, Strptime(r.visit_date))
                                /\ DateLE(Strptime(r.visit_date), hi) }
            /\ \A i, j \in 1..Len(v) :
                   i < j => DateLT(Strptime(v[i].visit_date),
                                   Strptime(v[j].visit_date))

\* The range query returns two rows, one dated on each end of the range, and
\* the later one was inserted first.
C12_Witness ==
    /\ ret.op = "get_visits_by_period" /\ ~ret.raised
    /\ Len(ret.value) = 2
    /\ Strptime(ret.value[1].visit_date) = DateOf(ret.args[2])
    /\ Strptime(ret.value[2].visit_date) = DateOf(ret.args[3])
    /\ ret.value[1].id > ret.value[2].id

(***************************************************************************)
(* Further claims about the calendar                                       *)
(***************************************************************************)
\* The calendar of any year, counted without ordinals: the length of a
\* month and the day of the week (0 for a Monday ... 6 for a Sunday) by the
\* month-offset table of the Gregorian calendar.
MonthLengthIn(year, month) ==
    IF month = 2 /\ (year % 4 = 0 /\ (year % 100 # 0 \/ year % 400 = 0))
    THEN 29 ELSE MonthLength2026[month]

MonthOffsets == <<0, 3, 2, 5, 0, 3, 5, 1, 4, 6, 2, 4>>

DayOfWeekIn(d) ==
    LET y == IF d.month < 3 THEN d.year - 1 ELSE d.year
        sunday0 == (y + (y \div 4) - (y \div 100) + (y \div 400)
                    + MonthOffsets[d.month] + d.day) % 7
    IN  (sunday0 + 6) % 7

CalendarDays(year, month) ==
    { Date(year, month, day) : day \in 1..MonthLengthIn(year, month) }

\* The weekend and holiday dates of a month, and its other dates.
NonWorkingDates(year, month) ==
    { d \in CalendarDays(year, month) :
          d \in HolidayTable \/ DayOfWeekIn(d) \in {5, 6} }

WorkingDates(year, month) ==
    CalendarDays(year, month) \ NonWorkingDates(year, month)

\* C13: get_month_working_days(year, month) lists, in chronological order
\* and without repetition, dates of that month only, and these are exactly
\* the calendar days of the month that are neither weekend nor holiday: with
\* the weekend/holiday dates they cover the 1st to the last day once each.
C13_MonthPartition ==
    ret.op = "get_month_working_days" =>
        LET v == ret.value
            year == ret.args[1]
            month == ret.args[2]
            listed == { DateOf(v[i]) : i \in 1..Len(v) }
        IN  /\ \A i, j \in 1..Len(v) : i < j => DateLT(v[i], v[j])
            /\ \A i \in 1..Len(v) : v[i].year = year /\ v[i].month = month
            /\ listed = WorkingDates(year, month)
            /\ listed \cap NonWorkingDates(year, month) = {}
            /\ listed \cup NonWorkingDates(year, month) =
                   CalendarDays(year, month)
            /\ Len(v) + Cardinality(NonWorkingDates(year, month)) =
                   MonthLengthIn(year, month)

\* The working days of May 2026 have been listed: 19 of them, the first
\* being Monday the 4th, none of them the holidays of the 1st, 9th and 11th.
C13_Witness ==
    /\ ret.op = "get_month_working_days" /\ ret.args = <<2026, 5>>
    /\ Len(ret.value) = 19
    /\ DateOf(ret.value[1]) = Date(2026, 5, 4)
    /\ DateOf(ret.value[19]) = Date(2026, 5, 29)

(***************************************************************************)
(* Further claims about the text report                                    *)
(***************************************************************************)
\* The sum of the office counts of the first n week blocks.
RECURSIVE SumOfficeCounts(_, _)
SumOfficeCounts(blocks, n) ==
    IF n = 0 THEN 0
    ELSE blocks[n].office_count + SumOfficeCounts(blocks, n - 1)

\* C14: in every text report the total of in-office days equals the sum of
\* the office counts of the week blocks, and the in-office and remote
\* totals together do not exceed the number of working days of the month.
C14_TotalsConsistent ==
    IsTextReport =>
        LET report == ret.value
        IN  /\ report.total_office_days =
                   SumOfficeCounts(report.weeks, Len(report.weeks))
            /\ report.total_office_days + report.total_home_days
                   <= report.total_work_days

(***************************************************************************)
(* The text report for months at the turn of a year                        *)
(***************************************************************************)
\* December 2025 ends in ISO week 1 of 2026, December 2026 ends in ISO week
\* 53 of 2026, January 2027 begins in ISO week 53 of 2026.
TurnMonths == { <<2025, 12>>, <<2026, 12>>, <<2027, 1>> }

TurnMarks ==
    { <<101, d, w, NULL>> :
          d \in { DateTime(2025, 12, 29, 9), DateTime(2027, 1, 1, 9) },
          w \in BOOLEAN }

NextTurn ==
    \/ \E m \in TurnMarks : MarkVisit(m[1], m[2], m[3], m[4], "none")
    \/ \E u \in UserIds, ym \in TurnMonths, f \in ReadFaults :
           GenerateTextReport(u, ym[1], ym[2], f)

SpecTurn == InitReport /\ [][NextTurn]_vars

\* The calendar day of line j of block i of a text report.
DayShown(report, i, j) ==
    Date(report.year, report.weeks[i].week_status[j].day[2],
         report.weeks[i].week_status[j].day[1])

\* C15: the week blocks of the text report are in chronological order:
\* every day of an earlier block precedes every day of a later block.
C15_BlocksChronological ==
    IsTextReport =>
        LET report == ret.value
        IN  \A i, k \in 1..Len(report.weeks) :
                i < k =>
                    \A j \in 1..Len(report.weeks[i].week_status),
                       l \in 1..Len(report.weeks[k].week_status) :
                        DateLT(DayShown(report, i, j), DayShown(report, k, l))

(***************************************************************************)
(* bot.py: the handlers, one update at a time.  The last call record holds *)
(* the reply the bot sent and the inline keyboard under it; a button can   *)
(* be pressed by the user the reply went to.                               *)
(***************************************************************************)
\* A Friday; the clock can move on to the Saturday after it.
BotClock == DateTime(2026, 1, 16, 9)

BotProfile == <<"ann", "Ann", NULL>>

MarkButtons == {"mark_today_office", "mark_today_home"}

Buttons ==
    MarkButtons \cup {"mark_today_menu", "show_week", "show_report",
                      "report_current", "report_previous"}

Reply(text, keyboard) == [text |-> text, keyboard |-> keyboard]

\* The month before today's.
PreviousMonth(today) ==
    IF today.month = 1 THEN <<today.year - 1, 12>>
    ELSE <<today.year, today.month - 1>>

InitBot == InitAt(BotClock, NoCall)

\* Midnight passes.
Tick ==
    /\ DateOf(now) = DateOf(BotClock)
    /\ now' = AddDays(now, 1)
    /\ UNCHANGED <<users, visits, seq, ret, lastMark, lock, conns>>

\* /start
start(user_id) ==
    LET r == add_or_update_user(Db(users, visits, seq), user_id, BotProfile,
                                now, "none")
    IN  /\ users' = r.db.users
        /\ visits' = r.db.visits
        /\ seq' = r.db.seq
        /\ ret' = Call("start", <<user_id>>, FALSE,
                       Reply("welcome",
                             MarkButtons \cup {"show_week", "show_report"}))
        /\ UNCHANGED <<now, lastMark, lock, conns>>

\* /today
today_command(user_id) ==
    LET today == now
        visit == get_visit(Db(users, visits, seq), user_id, today)
    IN  /\ ret' = IF ~is_working_day(today)
                  THEN Call("today_command", <<user_id>>, FALSE,
                            Reply("day_off", {}))
                  ELSE Call("today_command", <<user_id>>, FALSE,
                            Reply(IF visit # None
                                  THEN <<"where_today",
                                         Truthy(visit.was_in_office)>>
                                  ELSE <<"where_today">>,
                                  MarkButtons))
        /\ UNCHANGED <<users, visits, seq, now, lastMark, lock, conns>>

\* /week
week_command(user_id) ==
    /\ ret' = Call("week_command", <<user_id>>, FALSE,
                   Reply(get_current_week_status(Db(users, visits, seq),
                                                 user_id, now),
                         {"mark_today_menu"}))
    /\ UNCHANGED <<users, visits, seq, now, lastMark, lock, conns>>

\* /report
report_command(user_id) ==
    /\ ret' = Call("report_command", <<user_id>>, FALSE,
                   Reply("choose_period",
                         {"report_current", "report_previous"}))
    /\ UNCHANGED <<users, visits, seq, now, lastMark, lock, conns>>

\* The text and the image report sent for one month.
ReportsFor(db, user_id, ym) ==
    Reply([text_report |-> generate_text_report(db, user_id, ym[1], ym[2]),
           image_report |-> generate_image_report(db, user_id, ym[1], ym[2])],
          {})

\* A press of an inline button by the user the last reply went to.
button_callback(user_id, data) ==
    LET today == now
        db == Db(users, visits, seq)
        marking == data \in MarkButtons /\ is_working_day(today)
        r == IF marking
             THEN mark_visit(db, user_id, today, data = "mark_today_office",
                             NULL, now, "none")
             ELSE [db |-> db, raised |-> FALSE]
        reply ==
            IF data \in MarkButtons
            THEN IF ~is_working_day(today) THEN Reply("day_off", {})
                 ELSE Reply(<<"marked", data>>, {})
            ELSE IF data = "mark_today_menu"
            THEN Reply(<<"where_today">>, MarkButtons)
            ELSE IF data = "show_week"
            THEN Reply(get_current_week_status(db, user_id, now),
                       {"mark_today_menu"})
            ELSE IF data \in {"show_report", "report_current"}
            THEN ReportsFor(db, user_id, <<today.year, today.month>>)
            ELSE ReportsFor(db, user_id, PreviousMonth(today))
    IN  /\ ret.op \in {"start", "today_command", "week_command",
                       "report_command", "button_callback"}
        /\ ret.args[1] = user_id
        /\ data \in ret.value.keyboard
        /\ marking => seq < MaxSeq
        /\ users' = r.db.users
        /\ visits' = r.db.visits
        /\ seq' = r.db.seq
        /\ ret' = Call("button_callback", <<user_id, data>>, FALSE, reply)
        /\ lastMark' = IF marking
                       THEN (Key(user_id, today) :>
                                 Marked(data = "mark_today_office", NULL))
                            @@ lastMark
                       ELSE lastMark
        /\ UNCHANGED <<now, lock, conns>>

NextBot ==
    \/ Tick
    \/ \E u \in UserIds : start(u)
    \/ \E u \in UserIds : today_command(u)
    \/ \E u \in UserIds : week_command(u)
    \/ \E u \in UserIds : report_command(u)
    \/ \E u \in UserIds, data \in Buttons : button_callback(u, data)

SpecBot == InitBot /\ [][NextBot]_vars

\* C16: every row of office_visits carries the user_id of a row of users.
C16_ReferentialIntegrity ==
    \A r \in visits : \E x \in users : x.user_id = r.user_id

====
